---- MODULE Spec2Model ----
(***************************************************************************)
(* Crane-game prize inventory (App.tsx, components/PrizeFormModal.tsx).    *)
(*                                                                         *)
(* Spec      : the App component - the in-memory collection, the dirty     *)
(*             flag, the save status, the durable slot, the timers of      *)
(*             handleSaveToStorage and the FileReader of handleImport.     *)
(* FormSpec  : the PrizeFormModal component with the App state it is       *)
(*             opened from and submits to - the form fields, the photo     *)
(*             ingestion (FileReader, then resizeImage) and handleSubmit.  *)
(* FairFormSpec : FormSpec, with the callbacks of the ingestion fired      *)
(*             whenever they are due.                                      *)
(* StoreSpec : the collection under every short sequence of calls of the   *)
(*             record handlers, clear-all, export and import.              *)
(* ViewSpec  : the search term and the category filter over collections    *)
(*             loaded from the slot.                                       *)
(*                                                                         *)
(* The tools menu (showTools) only decides which buttons are on screen and  *)
(* can always be opened: the handlers behind it are always available here. *)
(*                                                                         *)
(* A JSON value is [type, items]: an array with its elements, or any       *)
(* other parsable value (an object, a number, null).  A text is            *)
(* [form, indent, value]: no text at all (getItem's null), the empty       *)
(* string, text JSON.parse rejects, or JSON text, whose value lists for    *)
(* each element of an array its members, name by name.                     *)
(***************************************************************************)
EXTENDS Integers, Sequences, FiniteSets, TLC

VARIABLES
    prizes,       \* useState<Prize[]>: the in-memory collection (a JSON value)
    isDirty,      \* useState(false)
    saveStatus,   \* useState 'idle' | 'saving' | 'saved'
    storage,      \* localStorage['crane-game-prizes'] (a text)
    timers,       \* pending setTimeout callbacks, in registration order
    reads,        \* pending FileReader.readAsText calls of handleImport
    mounted,      \* the mount effect has run
    last,         \* history: the handler that ran last, with its outcome
    imported,     \* history: an import was applied and no save triggered
                  \* after it has completed its write yet
    isModalOpen,  \* useState(false)
    prizeToEdit,  \* useState<Prize | null>(null)
    form,         \* the field states of PrizeFormModal: name, quantity,
                  \* acquisitionDate, photo, notes, category, manufacturer
    isProcessingImage,  \* useState(false)
    ingest,       \* the photo ingestion in flight, if any
    now,          \* Date.now()
    img,          \* resizeImage: the Image the data URL is decoded to
    canvas,       \* resizeImage: the canvas the image is drawn to
    searchTerm,        \* useState('')
    selectedCategory,  \* useState<PrizeCategory | 'all'>('all')
    sortOrder,         \* useState<SortOrder>('date-desc')
    calls         \* history: the handlers called so far, with their arguments

appVars == <<prizes, isDirty, saveStatus, storage, timers, reads, mounted,
             last, imported>>

imageVars == <<img, canvas>>

formVars == <<isModalOpen, prizeToEdit, form, isProcessingImage, ingest, now,
              imageVars>>

viewVars == <<searchTerm, selectedCategory, sortOrder>>

vars == <<appVars, formVars, viewVars, calls>>

----------------------------------------------------------------------------
(* Bounds *)

MaxPrizes == 1     \* longest collection an upsert may append to build
MaxPending == 2    \* most callbacks (timers and file reads) pending at once
MaxNow    == 2     \* latest value of the clock
MaxQuantity == 2   \* largest quantity the + button may reach
MaxCalls  == 3     \* most handler calls recorded in one run of the store

----------------------------------------------------------------------------
(* JSON values and texts *)

JsonArray(items) == [type |-> "array", items |-> items]

JsonObject == [type |-> "object", items |-> <<>>]

ArrayIsArray(v) == v.type = "array"

NoText      == [form |-> "absent",  indent |-> 0, value |-> JsonObject]
EmptyText   == [form |-> "empty",   indent |-> 0, value |-> JsonObject]
GarbageText == [form |-> "garbage", indent |-> 0, value |-> JsonObject]

\* the properties of a record, in the order handleSubmit creates them
PropertyOrder ==
    <<"id", "name", "quantity", "acquisitionDate", "category", "manufacturer",
      "photo", "notes">>

\* the members JSON.stringify writes for an object: a name and a value for
\* each property it has
Members(r) ==
    LET names == SelectSeq(PropertyOrder, LAMBDA k : k \in DOMAIN r)
    IN  [j \in 1..Len(names) |-> <<names[j], r[names[j]]>>]

\* the object JSON.parse builds from members: a later member of a name
\* replaces an earlier one
ObjectOf(members) ==
    LET names == {members[j][1] : j \in 1..Len(members)}
        LastOf(k) == CHOOSE j \in 1..Len(members) :
                        /\ members[j][1] = k
                        /\ \A m \in (j + 1)..Len(members) : members[m][1] # k
    IN  [k \in names |-> members[LastOf(k)][2]]

\* JSON.stringify(value, null, indent): the text of an array lists the
\* members of each element
JSONstringify(v, indent) ==
    [form |-> "json", indent |-> indent,
     value |-> [type |-> v.type,
                items |-> [i \in 1..Len(v.items) |-> Members(v.items[i])]]]

\* JSON.parse(text) throws a SyntaxError
JSONparseThrows(t) == t.form # "json"

\* JSON.parse(text), where it does not throw
JSONparse(t) ==
    [type |-> t.value.type,
     items |-> [i \in 1..Len(t.value.items) |-> ObjectOf(t.value.items[i])]]

----------------------------------------------------------------------------
(* Records *)

Ids == {1, 2}

Quantities == {0}

Prize(id, q) ==
    [id |-> id, name |-> "A", quantity |-> q, acquisitionDate |-> "2024-01-01",
     category |-> "other", manufacturer |-> "unspecified", photo |-> "",
     notes |-> ""]

\* the records the form hands to onSave
PrizeInputs == {Prize(1, 1)}

\* an array element that is no record of the expected shape: it has no name
Shapeless == [id |-> 2]

\* the contents of the files a user may select for import
Documents ==
    { GarbageText,
      JSONstringify(JsonObject, 2),
      JSONstringify(JsonArray(<<Prize(1, 0)>>), 2),
      JSONstringify(JsonArray(<<Prize(1, 1), Prize(1, 0)>>), 2),
      JSONstringify(JsonArray(<<Shapeless>>), 2) }

\* what the slot may hold at start-up
SlotContents ==
    { NoText, EmptyText, GarbageText,
      JSONstringify(JsonObject, 0),
      JSONstringify(JsonArray(<<Prize(1, 0)>>), 0),
      JSONstringify(JsonArray(<<Shapeless>>), 0) }

----------------------------------------------------------------------------
(* Rendering *)

\* stats and filteredAndSortedPrizes throw a TypeError during render:
\* prizes.reduce / prizes.filter is no function, or prize.name is undefined.
\* React then unmounts the tree: no handler runs any more and state updates
\* are dropped.
RenderThrows(p) ==
    \/ ~ArrayIsArray(p)
    \/ \E i \in 1..Len(p.items) : "name" \notin DOMAIN p.items[i]

Crashed == RenderThrows(prizes)

Alive == mounted /\ ~Crashed

----------------------------------------------------------------------------
(* Initial state: the useState initialisers, and whatever the slot holds *)

\* prizeToEdit = null
NoPrize == [null |-> TRUE]

Today == "2024-06-01"

\* the useState initialisers of PrizeFormModal
InitialForm ==
    [name |-> "", quantity |-> 1, acquisitionDate |-> "", photo |-> "",
     notes |-> "", category |-> "other", manufacturer |-> "unspecified"]

NoIngestion == [stage |-> "none", file |-> "", stale |-> FALSE]

\* no image has been decoded, no canvas has been created
NoImage == [width |-> 0, height |-> 0]

NoCanvas == [width |-> 0, height |-> 0]

\* the useState initialisers of the search box, the category selector and
\* the sort order; no handler has been called
ViewInitial ==
    /\ searchTerm = ""
    /\ selectedCategory = "all"
    /\ sortOrder = "date-desc"
    /\ calls = <<>>

FormClosed ==
    /\ isModalOpen = FALSE
    /\ prizeToEdit = NoPrize
    /\ form = InitialForm
    /\ isProcessingImage = FALSE
    /\ ingest = NoIngestion
    /\ now = 1
    /\ img = NoImage
    /\ canvas = NoCanvas

Init ==
    /\ FormClosed
    /\ ViewInitial
    /\ prizes = JsonArray(<<>>)
    /\ isDirty = FALSE
    /\ saveStatus = "idle"
    /\ storage \in SlotContents
    /\ timers = <<>>
    /\ reads = <<>>
    /\ mounted = FALSE
    /\ last = "init"
    /\ imported = FALSE

----------------------------------------------------------------------------
(* Load on mount *)

\* the value of prizes after the mount effect
LoadedPrizes(slot, cur) ==
    IF slot.form \in {"absent", "empty"} THEN cur      \* if (storedPrizes)
    ELSE IF JSONparseThrows(slot) THEN cur             \* catch
    ELSE JSONparse(slot)

Load ==
    /\ ~mounted
    /\ mounted' = TRUE
    /\ prizes' = LoadedPrizes(storage, prizes)
    /\ last' = "load"
    /\ UNCHANGED <<isDirty, saveStatus, storage, timers, reads,
                   imported>>
    /\ UNCHANGED <<formVars, viewVars, calls>>

----------------------------------------------------------------------------
(* Helpers *)

Remove(seq, i) == SubSeq(seq, 1, i - 1) \o SubSeq(seq, i + 1, Len(seq))

\* a state setter called after the tree was unmounted by a render error does
\* nothing
SetState(cur, new) == IF Crashed THEN cur ELSE new

----------------------------------------------------------------------------
(* Manual save: handleSaveToStorage and its two timers *)

\* a pending setTimeout callback: the 400 ms write, with the prizes its
\* closure captured, or the 2000 ms return to idle.  stale (history): the
\* write was triggered before the latest applied import.
Timer(kind, snap) == [kind |-> kind, snap |-> snap, stale |-> FALSE]

\* Timers of one delay fire in registration order, and a 2000 ms timer never
\* fires before a 400 ms timer registered earlier.
CanFire(i) ==
    IF timers[i].kind = "write"
    THEN \A j \in 1..(i - 1) : timers[j].kind # "write"
    ELSE i = 1

handleSaveToStorage ==
    /\ Len(timers) + Len(reads) < MaxPending
    /\ saveStatus' = "saving"
    /\ timers' = Append(timers, Timer("write", prizes))
    /\ last' = "user"
    /\ UNCHANGED <<prizes, isDirty, storage, reads, mounted,
                   imported>>
    /\ UNCHANGED <<formVars, viewVars, calls>>

\* the header button: disabled={saveStatus === 'saving'}
ClickHeaderSave ==
    /\ Alive
    /\ saveStatus # "saving"
    /\ handleSaveToStorage

\* the button of the unsaved-data banner: rendered when isDirty
ClickBannerSave ==
    /\ Alive
    /\ isDirty
    /\ handleSaveToStorage

\* SaveWrite with setIsDirty(false) moved out of the try block
SaveWrite_ClearsDirtyOnFailure(i, ok) ==
    /\ timers[i].kind = "write"
    /\ CanFire(i)
    /\ IF ok
       THEN /\ storage' = JSONstringify(timers[i].snap, 0)
            /\ saveStatus' = SetState(saveStatus, "saved")
            /\ timers' = Append(Remove(timers, i), Timer("idle", JsonArray(<<>>)))
            /\ imported' = IF timers[i].stale THEN imported ELSE FALSE
            /\ last' = "writeOk"
       ELSE /\ saveStatus' = SetState(saveStatus, "idle")
            /\ timers' = Remove(timers, i)
            /\ last' = "writeFailed"
            /\ UNCHANGED <<storage, imported>>
    /\ isDirty' = SetState(isDirty, FALSE)
    /\ UNCHANGED <<prizes, reads, mounted>>
    /\ UNCHANGED <<formVars, viewVars, calls>>

\* SaveWrite reading the collection when the callback runs
SaveWrite_WritesCurrent(i, ok) ==
    /\ timers[i].kind = "write"
    /\ CanFire(i)
    /\ IF ok
       THEN /\ storage' = JSONstringify(prizes, 0)
            /\ isDirty' = SetState(isDirty, FALSE)
            /\ saveStatus' = SetState(saveStatus, "saved")
            /\ timers' = Append(Remove(timers, i), Timer("idle", JsonArray(<<>>)))
            /\ imported' = IF timers[i].stale THEN imported ELSE FALSE
            /\ last' = "writeOk"
       ELSE /\ saveStatus' = SetState(saveStatus, "idle")
            /\ timers' = Remove(timers, i)
            /\ last' = "writeFailed"
            /\ UNCHANGED <<storage, isDirty, imported>>
    /\ UNCHANGED <<prizes, reads, mounted>>
    /\ UNCHANGED <<formVars, viewVars, calls>>

\* the 400 ms callback; ok: localStorage.setItem does not throw
SaveWrite(i, ok) ==
    /\ timers[i].kind = "write"
    /\ CanFire(i)
    /\ IF ok
       THEN /\ storage' = JSONstringify(timers[i].snap, 0)
            /\ isDirty' = SetState(isDirty, FALSE)
            /\ saveStatus' = SetState(saveStatus, "saved")
            /\ timers' = Append(Remove(timers, i), Timer("idle", JsonArray(<<>>)))
            /\ imported' = IF timers[i].stale THEN imported ELSE FALSE
            /\ last' = "writeOk"
       ELSE /\ saveStatus' = SetState(saveStatus, "idle")
            /\ timers' = Remove(timers, i)
            /\ last' = "writeFailed"
            /\ UNCHANGED <<storage, isDirty, imported>>
    /\ UNCHANGED <<prizes, reads, mounted>>
    /\ UNCHANGED <<formVars, viewVars, calls>>

FireSaveWrite == \E i \in 1..Len(timers) : \E ok \in BOOLEAN : SaveWrite(i, ok)

\* the 2000 ms callback
SaveIdle(i) ==
    /\ timers[i].kind = "idle"
    /\ CanFire(i)
    /\ saveStatus' = SetState(saveStatus, "idle")
    /\ timers' = Remove(timers, i)
    /\ last' = "idleTimer"
    /\ UNCHANGED <<prizes, isDirty, storage, reads, mounted,
                   imported>>
    /\ UNCHANGED <<formVars, viewVars, calls>>

FireSaveIdle == \E i \in 1..Len(timers) : SaveIdle(i)

----------------------------------------------------------------------------
(* Tools menu: export, import, clear all *)

\* ExportedDocument that lists the records newest first
ExportedDocument_NewestFirst(p) ==
    JSONstringify(
        JsonArray([i \in 1..Len(p.items) |-> p.items[Len(p.items) + 1 - i]]), 2)

\* the content of the downloaded file
ExportedDocument(p) == JSONstringify(p, 2)

handleExport ==
    /\ Alive
    /\ last' = "user"
    /\ UNCHANGED <<prizes, isDirty, saveStatus, storage, timers, reads,
                   mounted, imported>>
    /\ UNCHANGED <<formVars, viewVars>>

\* the change event of the hidden file input; file: the content of the
\* selected file
handleImport(file) ==
    /\ Alive
    /\ Len(timers) + Len(reads) < MaxPending
    /\ reads' = Append(reads, file)
    /\ last' = "user"
    /\ UNCHANGED <<prizes, isDirty, saveStatus, storage, timers, mounted,
                   imported>>
    /\ UNCHANGED <<formVars, viewVars>>

\* the export button of the tools menu
ClickExport == handleExport /\ UNCHANGED calls

SelectImportFile ==
    \E file \in Documents : handleImport(file) /\ UNCHANGED calls

\* ReaderOnload without the Array.isArray test
ReaderOnload_NoArrayTest(i, answer) ==
    LET content == reads[i] IN
    /\ reads' = Remove(reads, i)
    /\ IF JSONparseThrows(content)
       THEN /\ last' = "importUnparsable"
            /\ UNCHANGED <<prizes, isDirty, timers, imported>>
       ELSE IF ~answer
       THEN /\ last' = "importDeclined"
            /\ UNCHANGED <<prizes, isDirty, timers, imported>>
       ELSE /\ prizes' = SetState(prizes, JSONparse(content))
            /\ isDirty' = SetState(isDirty, TRUE)
            /\ last' = "importApplied"
            /\ UNCHANGED <<timers, imported>>
    /\ UNCHANGED <<saveStatus, storage, mounted>>
    /\ UNCHANGED <<formVars, viewVars, calls>>

\* reader.onload; answer: what the user answers to confirm()
ReaderOnload(i, answer) ==
    LET content == reads[i] IN
    /\ reads' = Remove(reads, i)
    /\ IF JSONparseThrows(content)
       THEN /\ last' = "importUnparsable"
            /\ UNCHANGED <<prizes, isDirty, timers, imported>>
       ELSE IF ~ArrayIsArray(JSONparse(content))
       THEN /\ last' = "importNotArray"
            /\ UNCHANGED <<prizes, isDirty, timers, imported>>
       ELSE IF ~answer
       THEN /\ last' = "importDeclined"
            /\ UNCHANGED <<prizes, isDirty, timers, imported>>
       ELSE /\ prizes' = SetState(prizes, JSONparse(content))
            /\ isDirty' = SetState(isDirty, TRUE)
            /\ imported' = SetState(imported, TRUE)
            /\ timers' = IF Crashed THEN timers
                         ELSE [j \in 1..Len(timers) |->
                                  [timers[j] EXCEPT !.stale = (timers[j].kind = "write")]]
            /\ last' = "importApplied"
    /\ UNCHANGED <<saveStatus, storage, mounted>>
    /\ UNCHANGED <<formVars, viewVars, calls>>

FireReaderOnload ==
    \E i \in 1..Len(reads) : \E answer \in BOOLEAN : ReaderOnload(i, answer)

\* the read fails: onload is never called and no onerror is set
ReaderError(i) ==
    /\ reads' = Remove(reads, i)
    /\ last' = "readError"
    /\ UNCHANGED <<prizes, isDirty, saveStatus, storage, timers,
                   mounted, imported>>
    /\ UNCHANGED <<formVars, viewVars, calls>>

FireReaderError == \E i \in 1..Len(reads) : ReaderError(i)

handleClearAll(answer) ==
    /\ Alive
    /\ IF answer
       THEN /\ prizes' = JsonArray(<<>>)
            /\ isDirty' = TRUE
                    /\ last' = "user"
       ELSE /\ last' = "user"
            /\ UNCHANGED <<prizes, isDirty>>
    /\ UNCHANGED <<saveStatus, storage, timers, reads, mounted, imported>>
    /\ UNCHANGED <<formVars, viewVars>>

ClickClearAll ==
    \E answer \in BOOLEAN : handleClearAll(answer) /\ UNCHANGED calls

----------------------------------------------------------------------------
(* Record mutations *)

\* prevPrizes.findIndex(p => p.id === id), 1-based; 0 for JavaScript's -1
FindIndex(items, id) ==
    IF \E i \in 1..Len(items) : items[i].id = id
    THEN CHOOSE i \in 1..Len(items) :
            /\ items[i].id = id
            /\ \A j \in 1..(i - 1) : items[j].id # id
    ELSE 0

\* Upsert without the search for the id
Upsert_AlwaysAppends(items, prize) == Append(items, prize)

\* Upsert that moves a replaced record to the end
Upsert_MovesToEnd(items, prize) ==
    Append(SelectSeq(items, LAMBDA p : p.id # prize.id), prize)

\* the updater of handleSavePrize
Upsert(items, prize) ==
    LET existingIndex == FindIndex(items, prize.id) IN
    IF existingIndex > 0
    THEN [items EXCEPT ![existingIndex] = prize]
    ELSE Append(items, prize)

\* handleSavePrize that also writes the slot
handleSavePrize_AutoSaves(prize) ==
    /\ Alive
    /\ prizes' = JsonArray(Upsert(prizes.items, prize))
    /\ isDirty' = TRUE
    /\ storage' = JSONstringify(prizes', 0)
    /\ last' = "user"
    /\ UNCHANGED <<saveStatus, timers, reads, mounted, imported>>

handleSavePrize(prize) ==
    /\ Alive
    /\ prizes' = JsonArray(Upsert(prizes.items, prize))
    /\ isDirty' = TRUE
    /\ last' = "user"
    /\ UNCHANGED <<saveStatus, storage, timers, reads, mounted,
                   imported>>

\* the collection grows to at most MaxPrizes records
MayUpsert(prize) ==
    FindIndex(prizes.items, prize.id) > 0 \/ Len(prizes.items) < MaxPrizes

SubmitPrize ==
    \E prize \in PrizeInputs :
        /\ MayUpsert(prize)
        /\ handleSavePrize(prize)
        /\ UNCHANGED <<formVars, viewVars, calls>>

\* DeleteById with the test of the filter inverted
DeleteById_Inverted(items, prizeId) == SelectSeq(items, LAMBDA p : p.id = prizeId)

\* the updater of handleDeletePrize
DeleteById(items, prizeId) == SelectSeq(items, LAMBDA p : p.id # prizeId)

\* handleDeletePrize that marks the collection dirty only when it removed a
\* record
handleDeletePrize_DirtyOnlyIfRemoved(prizeId, answer) ==
    /\ Alive
    /\ IF answer
       THEN /\ prizes' = JsonArray(DeleteById(prizes.items, prizeId))
            /\ isDirty' = (isDirty \/ prizes' # prizes)
            /\ last' = "user"
       ELSE /\ last' = "user"
            /\ UNCHANGED <<prizes, isDirty>>
    /\ UNCHANGED <<saveStatus, storage, timers, reads, mounted,
                   imported>>
    /\ UNCHANGED <<formVars, viewVars>>

handleDeletePrize(prizeId, answer) ==
    /\ Alive
    /\ IF answer
       THEN /\ prizes' = JsonArray(DeleteById(prizes.items, prizeId))
            /\ isDirty' = TRUE
            /\ last' = "user"
       ELSE /\ last' = "user"
            /\ UNCHANGED <<prizes, isDirty>>
    /\ UNCHANGED <<saveStatus, storage, timers, reads, mounted,
                   imported>>
    /\ UNCHANGED <<formVars, viewVars>>

ClickDelete ==
    \E prizeId \in Ids : \E answer \in BOOLEAN :
        handleDeletePrize(prizeId, answer) /\ UNCHANGED calls

\* SetQuantity that builds the record anew, without spreading the old one
SetQuantity_WithoutSpread(items, prizeId, newQuantity) ==
    [i \in 1..Len(items) |->
        IF items[i].id = prizeId
        THEN [id |-> prizeId, quantity |-> newQuantity]
        ELSE items[i]]

\* the updater of handleQuantityChange
SetQuantity(items, prizeId, newQuantity) ==
    [i \in 1..Len(items) |->
        IF items[i].id = prizeId
        THEN [items[i] EXCEPT !.quantity = newQuantity]
        ELSE items[i]]

handleQuantityChange(prizeId, newQuantity) ==
    /\ Alive
    /\ prizes' = JsonArray(SetQuantity(prizes.items, prizeId, newQuantity))
    /\ isDirty' = TRUE
    /\ last' = "user"
    /\ UNCHANGED <<saveStatus, storage, timers, reads, mounted,
                   imported>>
    /\ UNCHANGED <<formVars, viewVars>>

ChangeQuantity ==
    \E prizeId \in Ids : \E newQuantity \in Quantities :
        handleQuantityChange(prizeId, newQuantity) /\ UNCHANGED calls

----------------------------------------------------------------------------
(* Derived values: stats *)

\* prizes.reduce((sum, p) => sum + p.quantity, 0), from element i on
RECURSIVE ReduceQuantity(_, _, _)
ReduceQuantity(items, i, sum) ==
    IF i > Len(items) THEN sum
    ELSE ReduceQuantity(items, i + 1, sum + items[i].quantity)

\* prizes.reduce((acc, p) => { acc[p.category] = (acc[p.category] || 0) +
\* p.quantity; return acc }, {}), from element i on
RECURSIVE ReduceCategory(_, _, _)
ReduceCategory(items, i, acc) ==
    IF i > Len(items) THEN acc
    ELSE LET c   == items[i].category
             was == IF c \in DOMAIN acc THEN acc[c] ELSE 0
         IN  ReduceCategory(items, i + 1,
                [k \in DOMAIN acc \cup {c} |->
                    IF k = c THEN was + items[i].quantity ELSE acc[k]])

\* stats with the records counted instead of their quantities
stats_CountsRecords(items) ==
    [totalTypes    |-> Len(items),
     totalQuantity |-> Len(items),
     categoryCount |-> ReduceCategory(items, 1, <<>>)]

stats(items) ==
    [totalTypes    |-> Len(items),
     totalQuantity |-> ReduceQuantity(items, 1, 0),
     categoryCount |-> ReduceCategory(items, 1, <<>>)]

----------------------------------------------------------------------------
(* Derived values: the view, filteredAndSortedPrizes *)

\* the characters of the strings used as names and search terms
Chars(s) ==
    CASE s = ""   -> <<>>
      [] s = " "  -> <<" ">>
      [] s = "A"  -> <<"A">>
      [] s = "a"  -> <<"a">>
      [] s = "B"  -> <<"B">>
      [] s = "b"  -> <<"b">>
      [] s = "Ab" -> <<"A", "b">>
      [] s = "ab" -> <<"a", "b">>

LowerChar(c) == CASE c = "A" -> "a" [] c = "B" -> "b" [] OTHER -> c

\* String.prototype.toLowerCase, on characters
toLowerCase(cs) == [i \in 1..Len(cs) |-> LowerChar(cs[i])]

\* String.prototype.includes, on characters
includes(cs, ts) ==
    \E k \in 0..(Len(cs) - Len(ts)) : SubSeq(cs, k + 1, k + Len(ts)) = ts

\* new Date(acquisitionDate).getTime(), in days
getTime(d) ==
    CASE d = "2024-01-01" -> 1
      [] d = "2024-02-01" -> 32
      [] d = "2024-06-01" -> 153

\* the order of two sequences of numbers: -1, 0 or 1
CompareNumbers(xs, ys) ==
    LET n    == IF Len(xs) < Len(ys) THEN Len(xs) ELSE Len(ys)
        diff == {i \in 1..n : xs[i] # ys[i]}
        at   == CHOOSE i \in diff : \A j \in diff : i <= j
    IN  IF diff # {} THEN (IF xs[at] < ys[at] THEN -1 ELSE 1)
        ELSE IF Len(xs) < Len(ys) THEN -1
        ELSE IF Len(xs) > Len(ys) THEN 1
        ELSE 0

\* the collation of 'ja' on what the names are made of: the space before the
\* letters, the letters in alphabetical order, and between strings of the
\* same letters the lower case first
LetterRank(c) == CASE c = " " -> 0 [] c \in {"a", "A"} -> 1 [] c \in {"b", "B"} -> 2

CaseRank(c) == IF c \in {"A", "B"} THEN 1 ELSE 0

\* a.localeCompare(b, 'ja')
localeCompare(a, b) ==
    LET letters == CompareNumbers([i \in 1..Len(Chars(a)) |-> LetterRank(Chars(a)[i])],
                                  [i \in 1..Len(Chars(b)) |-> LetterRank(Chars(b)[i])])
    IN  IF letters # 0 THEN letters
        ELSE CompareNumbers([i \in 1..Len(Chars(a)) |-> CaseRank(Chars(a)[i])],
                            [i \in 1..Len(Chars(b)) |-> CaseRank(Chars(b)[i])])

SortOrders == {"date-desc", "name-asc", "name-desc"}

\* Compare with the dates subtracted the other way round
Compare_OldestFirst(order, a, b) ==
    CASE order = "name-asc"  -> localeCompare(a.name, b.name)
      [] order = "name-desc" -> localeCompare(b.name, a.name)
      [] OTHER -> getTime(a.acquisitionDate) - getTime(b.acquisitionDate)

\* the comparison function of the sort, by sort order
Compare(order, a, b) ==
    CASE order = "name-asc"  -> localeCompare(a.name, b.name)
      [] order = "name-desc" -> localeCompare(b.name, a.name)
      [] OTHER -> getTime(b.acquisitionDate) - getTime(a.acquisitionDate)

\* Array.prototype.sort is stable: the first n elements of seq, sorted, each
\* one placed before the first element that compares greater
RECURSIVE InsertionSort(_, _, _)
InsertionSort(seq, n, order) ==
    IF n = 0 THEN <<>>
    ELSE LET s     == InsertionSort(seq, n - 1, order)
             later == {j \in 1..Len(s) : Compare(order, s[j], seq[n]) > 0}
             at    == IF later = {} THEN Len(s) + 1
                      ELSE CHOOSE j \in later : \A k \in later : j <= k
         IN  SubSeq(s, 1, at - 1) \o <<seq[n]>> \o SubSeq(s, at, Len(s))

ArraySort(seq, order) == InsertionSort(seq, Len(seq), order)

\* the test of the filter
Matches(prize, term, category) ==
    LET nameMatch     == includes(toLowerCase(Chars(prize.name)),
                                  toLowerCase(Chars(term)))
        categoryMatch == category = "all" \/ prize.category = category
    IN  nameMatch /\ categoryMatch

\* filteredAndSortedPrizes that sorts the collection itself before filtering
filteredAndSortedPrizes_SortsInPlace(items, term, category, order) ==
    LET arrays0 == [prizes |-> items]
        arrays1 == [arrays0 EXCEPT !.prizes = ArraySort(@, order)]
        arrays2 == [prizes   |-> arrays1.prizes,
                    filtered |-> SelectSeq(arrays1.prizes,
                                    LAMBDA prize : Matches(prize, term, category))]
    IN  [view |-> arrays2.filtered, prizes |-> arrays2.prizes]

\* The arrays the memo works on: filter makes a new array and leaves the one
\* it is called on alone, the spread copies, sort sorts the array it is
\* called on in place.  view: the value of the memo; prizes: the collection
\* afterwards.
filteredAndSortedPrizes(items, term, category, order) ==
    LET arrays0 == [prizes |-> items]
        arrays1 == [prizes   |-> arrays0.prizes,
                    filtered |-> SelectSeq(arrays0.prizes,
                                    LAMBDA prize : Matches(prize, term, category))]
        arrays2 == [prizes   |-> arrays1.prizes,
                    filtered |-> arrays1.filtered,
                    copy     |-> arrays1.filtered]
        arrays3 == [arrays2 EXCEPT !.copy = ArraySort(@, order)]
    IN  [view |-> arrays3.copy, prizes |-> arrays3.prizes]

\* the render after a change of the search term or the category: the memo is
\* computed again
Rerender(term, category) ==
    prizes' = JsonArray(filteredAndSortedPrizes(prizes.items, term, category,
                                                sortOrder).prizes)

SearchTerms == {"", "a", "B", "ab"}

Categories == {"all", "other", "figure", "plush"}

\* the search box
setSearchTerm(term) ==
    /\ Alive
    /\ searchTerm' = term
    /\ Rerender(term, selectedCategory)
    /\ UNCHANGED <<isDirty, saveStatus, storage, timers, reads, mounted, last,
                   imported>>
    /\ UNCHANGED <<formVars, selectedCategory, sortOrder, calls>>

ChangeSearchTerm == \E term \in SearchTerms : setSearchTerm(term)

\* the category selector
setSelectedCategory(category) ==
    /\ Alive
    /\ selectedCategory' = category
    /\ Rerender(searchTerm, category)
    /\ UNCHANGED <<isDirty, saveStatus, storage, timers, reads, mounted, last,
                   imported>>
    /\ UNCHANGED <<formVars, searchTerm, sortOrder, calls>>

ChangeCategory == \E category \in Categories : setSelectedCategory(category)

\* a record with a name, a date and a category of its own
Item(id, name, date, category) ==
    [Prize(id, 1) EXCEPT !.name = name, !.acquisitionDate = date,
                         !.category = category]

\* what the slot may hold at start-up, for the view
ViewSlots ==
    { NoText,
      JSONstringify(JsonArray(<<Item(1, "A", "2024-01-01", "other")>>), 0),
      JSONstringify(JsonArray(<<Item(1, "A", "2024-01-01", "other"),
                                Item(2, "B", "2024-02-01", "figure")>>), 0),
      JSONstringify(JsonArray(<<Item(1, "B", "2024-02-01", "other"),
                                Item(2, "A", "2024-01-01", "other")>>), 0),
      JSONstringify(JsonArray(<<Item(1, "b", "2024-01-01", "plush"),
                                Item(2, "Ab", "2024-01-01", "plush"),
                                Item(3, "ab", "2024-06-01", "other")>>), 0),
      JSONstringify(JsonArray(<<Item(1, "ab", "2024-02-01", "figure"),
                                Item(2, "a", "2024-06-01", "figure"),
                                Item(3, "B", "2024-02-01", "other")>>), 0),
      JSONstringify(JsonArray(<<Item(1, "Ab", "2024-06-01", "other"),
                                Item(2, "ab", "2024-02-01", "other"),
                                Item(3, "A", "2024-01-01", "figure")>>), 0) }

ViewInit ==
    /\ FormClosed
    /\ ViewInitial
    /\ prizes = JsonArray(<<>>)
    /\ isDirty = FALSE
    /\ saveStatus = "idle"
    /\ storage \in ViewSlots
    /\ timers = <<>>
    /\ reads = <<>>
    /\ mounted = FALSE
    /\ last = "init"
    /\ imported = FALSE

ViewNext ==
    \/ Load
    \/ ChangeSearchTerm
    \/ ChangeCategory

ViewSpec == ViewInit /\ [][ViewNext]_vars

----------------------------------------------------------------------------
(* The App component *)

Next ==
    \/ Load
    \/ ClickHeaderSave
    \/ ClickBannerSave
    \/ FireSaveWrite
    \/ FireSaveIdle
    \/ ClickExport
    \/ SelectImportFile
    \/ FireReaderOnload
    \/ FireReaderError
    \/ ClickClearAll
    \/ SubmitPrize
    \/ ClickDelete
    \/ ChangeQuantity

Spec == Init /\ [][Next]_vars

\* the browser calls a timer callback that is due
FairSpec ==
    /\ Spec
    /\ WF_vars(FireSaveWrite)
    /\ WF_vars(FireSaveIdle)

----------------------------------------------------------------------------
(* PrizeFormModal: opening, the fields, closing *)

\* the form is opened on an App that has loaded an absent slot
FormInit ==
    /\ FormClosed
    /\ ViewInitial
    /\ prizes = JsonArray(<<>>)
    /\ isDirty = FALSE
    /\ saveStatus = "idle"
    /\ storage = NoText
    /\ timers = <<>>
    /\ reads = <<>>
    /\ mounted = TRUE
    /\ last = "load"
    /\ imported = FALSE

appFrame == <<prizes, isDirty, saveStatus, storage, timers, reads, mounted,
              last, imported, viewVars, calls>>

\* JavaScript's  s || d  on strings and  n || d  on numbers
OrString(s, d) == IF s = "" THEN d ELSE s

OrNumber(n, d) == IF n = 0 THEN d ELSE n

\* the effect on [isOpen, prizeToEdit], run when the form opens
ResetForm(p) ==
    IF p = NoPrize
    THEN [name |-> "", quantity |-> 1, acquisitionDate |-> Today,
          photo |-> "", notes |-> "", category |-> "other",
          manufacturer |-> "unspecified"]
    ELSE [name |-> OrString(p.name, ""),
          quantity |-> OrNumber(p.quantity, 1),
          acquisitionDate |-> OrString(p.acquisitionDate, Today),
          photo |-> OrString(p.photo, ""),
          notes |-> OrString(p.notes, ""),
          category |-> OrString(p.category, "other"),
          manufacturer |-> OrString(p.manufacturer, "unspecified")]

\* setPrizeToEdit(p); setIsModalOpen(true), then the reset effect
OpenModal(p) ==
    /\ Alive
    /\ ~isModalOpen
    /\ isModalOpen' = TRUE
    /\ prizeToEdit' = p
    /\ form' = ResetForm(p)
    /\ UNCHANGED <<isProcessingImage, ingest, now>>
    /\ UNCHANGED imageVars
    /\ UNCHANGED appFrame

\* the floating + button
OpenNew == OpenModal(NoPrize)

\* onEdit of a listed record
OpenEdit == \E i \in 1..Len(prizes.items) : OpenModal(prizes.items[i])

\* onClose: the X button, the cancel button, a click outside the modal
\* (history: an ingestion in flight now belongs to a closed form)
onClose ==
    /\ isModalOpen' = FALSE
    /\ prizeToEdit' = NoPrize
    /\ ingest' = IF ingest.stage = "none" THEN ingest
                 ELSE [ingest EXCEPT !.stale = TRUE]

CloseModal ==
    /\ isModalOpen
    /\ onClose
    /\ UNCHANGED <<form, isProcessingImage, now>>
    /\ UNCHANGED imageVars
    /\ UNCHANGED appFrame

Names == {"", " ", "A"}

ChangeName ==
    /\ isModalOpen
    /\ \E n \in Names : form' = [form EXCEPT !.name = n]
    /\ UNCHANGED <<isModalOpen, prizeToEdit, isProcessingImage, ingest, now>>
    /\ UNCHANGED imageVars
    /\ UNCHANGED appFrame

Max(a, b) == IF a > b THEN a ELSE b

\* what a user may type into the number input
QuantityInputs == {-1}

\* the - button, the + button, the number input
ChangeFormQuantity ==
    /\ isModalOpen
    /\ \/ form' = [form EXCEPT !.quantity = Max(0, form.quantity - 1)]
       \/ /\ form.quantity < MaxQuantity
          /\ form' = [form EXCEPT !.quantity = form.quantity + 1]
       \/ \E n \in QuantityInputs : form' = [form EXCEPT !.quantity = n]
    /\ UNCHANGED <<isModalOpen, prizeToEdit, isProcessingImage, ingest, now>>
    /\ UNCHANGED imageVars
    /\ UNCHANGED appFrame

\* the x button on the preview: rendered when photo is non-empty
RemovePhoto ==
    /\ isModalOpen
    /\ form.photo # ""
    /\ form' = [form EXCEPT !.photo = ""]
    /\ UNCHANGED <<isModalOpen, prizeToEdit, isProcessingImage, ingest, now>>
    /\ UNCHANGED imageVars
    /\ UNCHANGED appFrame

\* time passes
Tick ==
    /\ now < MaxNow
    /\ now' = now + 1
    /\ UNCHANGED <<isModalOpen, prizeToEdit, form, isProcessingImage, ingest>>
    /\ UNCHANGED imageVars
    /\ UNCHANGED appFrame

----------------------------------------------------------------------------
(* Photo ingestion: handlePhotoChange and resizeImage *)

\* the files a user may select: an image, a file that is no image, a file
\* the FileReader fails to read
Files == {"photo.jpg", "notes.txt", "unreadable"}

\* reader.result at loadend: the data URL, or null after an error
ReaderResult(file) ==
    CASE file = "photo.jpg" -> "data:photo.jpg"
      [] file = "notes.txt" -> "data:notes.txt"
      [] OTHER -> "null"

\* img.onload is called for this src; there is no img.onerror
ImageLoads(src) == src = "data:photo.jpg"

\* the pixel dimensions an image file decodes to; a file that is no image
\* decodes to none
ImageOf(file) ==
    IF file = "photo.jpg" THEN [width |-> 1200, height |-> 800] ELSE NoImage

MAX_WIDTH == 600

MAX_HEIGHT == 600

\* a JavaScript number is an IEEE 754 double: 52 bits after the leading one
MantissaBits == 52

RECURSIVE Pow2(_)
Pow2(k) == IF k = 0 THEN 1 ELSE 2 * Pow2(k - 1)

\* 2^k modulo den, by repeated squaring
RECURSIVE Pow2Mod(_, _)
Pow2Mod(k, den) ==
    IF k = 0 THEN 1 % den
    ELSE IF k % 2 = 1 THEN (2 * Pow2Mod(k - 1, den)) % den
    ELSE LET half == Pow2Mod(k \div 2, den) IN (half * half) % den

\* the least e >= 1 with  1 / 2^e <= max / den,  for den > max
RECURSIVE BinaryExponent(_, _, _)
BinaryExponent(max, den, e) ==
    IF den <= max * Pow2(e) THEN e ELSE BinaryExponent(max, den, e + 1)

\* the m with  2^m <= n < 2^(m+1),  for n >= 1
RECURSIVE FloorLog2(_, _)
FloorLog2(n, m) == IF n < Pow2(m + 1) THEN m ELSE FloorLog2(n, m + 1)

\* x *= max / den  in double arithmetic, then assigned to a canvas dimension
\* (an unsigned long: the fraction is cut off), for 1 <= x <= den, den > max.
\* The quotient max / den is rounded to the nearest double and so is the
\* product. Where max * x / den is no integer the rounding errors are too
\* small to change the integer part. Where it is an integer n, the product
\* is n unless the quotient was rounded down by s / den of its last bit and
\* the product, n less n * s / (max * 2^(MantissaBits + e)), lies nearer to
\* the double below n than to n: then the integer part is n - 1.
Scaled(x, max, den) ==
    LET n == (x * max) \div den
        e == BinaryExponent(max, den, 1)
        s == (max * Pow2Mod(MantissaBits + e, den)) % den
        m == FloorLog2(n, 0)
    IN  IF (x * max) % den # 0 THEN n
        ELSE IF s = 0 \/ 2 * s > den THEN n
        ELSE IF n > Pow2(m)
             THEN IF 2 * n * s <= max * Pow2(m + e) THEN n ELSE n - 1
             ELSE IF 4 * s <= max * Pow2(e) THEN n ELSE n - 1

\* the canvas dimensions resizeImage computes from the image's
resizeDimensions(width, height) ==
    IF width > height
    THEN IF width > MAX_WIDTH
         THEN [width |-> MAX_WIDTH, height |-> Scaled(height, MAX_WIDTH, width)]
         ELSE [width |-> width, height |-> height]
    ELSE IF height > MAX_HEIGHT
         THEN [width |-> Scaled(width, MAX_HEIGHT, height), height |-> MAX_HEIGHT]
         ELSE [width |-> width, height |-> height]

\* canvas.toDataURL('image/jpeg', 0.7) of the scaled image
ResizedBase64(src) ==
    CASE src = "data:photo.jpg" -> "jpeg:photo.jpg"
      [] OTHER -> "jpeg:"

\* the change event of the file input; the label takes no clicks while an
\* image is being processed
handlePhotoChange(file) ==
    /\ isModalOpen
    /\ ~isProcessingImage
    /\ isProcessingImage' = TRUE
    /\ ingest' = [stage |-> "reading", file |-> file, stale |-> FALSE]
    /\ UNCHANGED <<isModalOpen, prizeToEdit, form, now>>
    /\ UNCHANGED imageVars
    /\ UNCHANGED appFrame

SelectPhoto == \E file \in Files : handlePhotoChange(file)

\* reader.onloadend: resizeImage(base64) starts, sets img.src and awaits
\* img.onload
ReaderLoadEnd ==
    /\ ingest.stage = "reading"
    /\ ingest' = [ingest EXCEPT !.stage = "decoding"]
    /\ img' = ImageOf(ingest.file)
    /\ UNCHANGED <<isModalOpen, prizeToEdit, form, isProcessingImage, now,
                   canvas>>
    /\ UNCHANGED appFrame

\* img.onload: the canvas takes the scaled dimensions and the promise
\* resolves, then setPhoto(compressed) and, in the
\* finally block, setIsProcessingImage(false)
ImgOnload ==
    /\ ingest.stage = "decoding"
    /\ ImageLoads(ReaderResult(ingest.file))
    /\ form' = [form EXCEPT !.photo = ResizedBase64(ReaderResult(ingest.file))]
    /\ isProcessingImage' = FALSE
    /\ ingest' = NoIngestion
    /\ canvas' = resizeDimensions(img.width, img.height)
    /\ UNCHANGED <<isModalOpen, prizeToEdit, now, img>>
    /\ UNCHANGED appFrame

----------------------------------------------------------------------------
(* Submitting the form *)

\* name.trim()
Trim(s) == IF s = " " THEN "" ELSE s

\* prizeToEdit?.id || Date.now().toString()
SubmittedId == IF prizeToEdit = NoPrize THEN now ELSE OrNumber(prizeToEdit.id, now)

prizeData ==
    [id |-> SubmittedId, name |-> form.name, quantity |-> form.quantity,
     acquisitionDate |-> form.acquisitionDate, category |-> form.category,
     manufacturer |-> form.manufacturer, photo |-> form.photo,
     notes |-> form.notes]

handleSubmit ==
    /\ isModalOpen
    /\ Trim(form.name) # ""
    /\ ~isProcessingImage
    /\ MayUpsert(prizeData)
    /\ handleSavePrize(prizeData)
    /\ onClose
    /\ UNCHANGED <<form, isProcessingImage, now, imageVars>>
    /\ UNCHANGED <<viewVars, calls>>

----------------------------------------------------------------------------
(* The form on the App *)

FormNext ==
    \/ OpenNew
    \/ OpenEdit
    \/ CloseModal
    \/ ChangeName
    \/ ChangeFormQuantity
    \/ RemovePhoto
    \/ Tick
    \/ SelectPhoto
    \/ ReaderLoadEnd
    \/ ImgOnload
    \/ handleSubmit

FormSpec == FormInit /\ [][FormNext]_vars

\* the browser calls a callback that is due
FairFormSpec ==
    /\ FormSpec
    /\ WF_vars(ReaderLoadEnd)
    /\ WF_vars(ImgOnload)

\* resizeImage alone: an image of any of these dimensions is being decoded
\* in the open form, and img.onload runs
ImageSides == {1, 88, 200, 300, 400, 600, 601, 800, 880, 1109, 1200}

ResizeInit ==
    /\ ViewInitial
    /\ prizes = JsonArray(<<>>)
    /\ isDirty = FALSE
    /\ saveStatus = "idle"
    /\ storage = NoText
    /\ timers = <<>>
    /\ reads = <<>>
    /\ mounted = TRUE
    /\ last = "load"
    /\ imported = FALSE
    /\ isModalOpen = TRUE
    /\ prizeToEdit = NoPrize
    /\ form = ResetForm(NoPrize)
    /\ isProcessingImage = TRUE
    /\ ingest = [stage |-> "decoding", file |-> "photo.jpg", stale |-> FALSE]
    /\ now = 1
    /\ img \in [width : ImageSides, height : ImageSides]
    /\ canvas = NoCanvas

ResizeSpec == ResizeInit /\ [][ImgOnload]_vars

----------------------------------------------------------------------------
(* The store: the handlers of App called one after the other, each call     *)
(* recorded in calls with its arguments                                     *)

\* a record with a name and a quantity of its own
Record(id, name, q) == [Prize(id, q) EXCEPT !.name = name]

\* the records onSave is called with: two different records for the first id
StorePrizes == {Record(id, "A", 1) : id \in Ids} \cup {Record(1, "B", 2)}

\* the quantities onQuantityChange is called with
StoreQuantities == {0}

\* what the slot may hold at start-up: nothing, or two records saved earlier
StoreSlots ==
    { NoText,
      JSONstringify(JsonArray(<<Record(1, "A", 1), Record(2, "B", 2)>>), 0) }

\* the contents of the files on disk, apart from the downloads: a document
\* that is no array
StoreDocuments == { JSONstringify(JsonObject, 2) }

\* the files downloaded by the export button so far
Downloads == {calls[k].doc : k \in {j \in 1..Len(calls) : calls[j].op = "export"}}

StoreInit ==
    /\ FormClosed
    /\ ViewInitial
    /\ prizes = JsonArray(<<>>)
    /\ isDirty = FALSE
    /\ saveStatus = "idle"
    /\ storage \in StoreSlots
    /\ timers = <<>>
    /\ reads = <<>>
    /\ mounted = FALSE
    /\ last = "init"
    /\ imported = FALSE

Called(c) ==
    /\ Len(calls) < MaxCalls
    /\ calls' = Append(calls, c)

\* onSave(prize)
StoreUpsert ==
    \E prize \in StorePrizes :
        /\ handleSavePrize(prize)
        /\ Called([op |-> "upsert", prize |-> prize])
        /\ UNCHANGED <<formVars, viewVars>>

\* onDelete(prizeId)
StoreDelete ==
    \E prizeId \in Ids : \E answer \in BOOLEAN :
        /\ handleDeletePrize(prizeId, answer)
        /\ Called([op |-> "delete", id |-> prizeId, answer |-> answer])

\* onQuantityChange(prizeId, newQuantity)
StoreSetQuantity ==
    \E prizeId \in Ids : \E newQuantity \in StoreQuantities :
        /\ handleQuantityChange(prizeId, newQuantity)
        /\ Called([op |-> "setQuantity", id |-> prizeId, q |-> newQuantity])

StoreClearAll ==
    \E answer \in BOOLEAN :
        /\ handleClearAll(answer)
        /\ Called([op |-> "clearAll", answer |-> answer])

\* the export button: the browser downloads the document
StoreExport ==
    /\ handleExport
    /\ Called([op |-> "export", doc |-> ExportedDocument(prizes), of |-> prizes])

\* the import button, with a file on disk or one downloaded earlier
StoreImport ==
    \E file \in StoreDocuments \cup Downloads :
        /\ handleImport(file)
        /\ Called([op |-> "import", file |-> file])

StoreNext ==
    \/ Load
    \/ StoreUpsert
    \/ StoreDelete
    \/ StoreSetQuantity
    \/ StoreClearAll
    \/ StoreExport
    \/ StoreImport
    \/ FireReaderOnload

StoreSpec == StoreInit /\ [][StoreNext]_vars

----------------------------------------------------------------------------
(* Steps, recognised by what they do to the timers and the reads *)

IdleTimer == Timer("idle", JsonArray(<<>>))

\* the write callback of timer i ran and setItem returned
WriteSucceeded(i) ==
    /\ i \in 1..Len(timers)
    /\ timers[i].kind = "write"
    /\ timers' = Append(Remove(timers, i), IdleTimer)

\* the write callback of timer i ran and setItem threw
WriteFailed(i) ==
    /\ i \in 1..Len(timers)
    /\ timers[i].kind = "write"
    /\ timers' = Remove(timers, i)

\* handleSaveToStorage ran: one more write is pending
SaveTriggered ==
    /\ Len(timers') = Len(timers) + 1
    /\ timers'[Len(timers')].kind = "write"

PendingWrites == {i \in 1..Len(timers) : timers[i].kind = "write"}

\* the collection a start-up from the slot as it is now would show
Persisted == LoadedPrizes(storage, JsonArray(<<>>))

\* a text holding an array of records of the expected shape
WellFormedDocument(t) ==
    /\ ~JSONparseThrows(t)
    /\ ~RenderThrows(JSONparse(t))

----------------------------------------------------------------------------
(* Claims about the App component *)

\* C1: whenever isDirty is false, the in-memory collection equals the
\* collection last written to the durable slot (the one loaded from it, before
\* any write).
C1_CleanImpliesPersisted ==
    (mounted /\ ~isDirty) => prizes = Persisted

\* C2: isDirty goes from true to false only in a step whose write to the
\* slot succeeded; a write that throws leaves isDirty and the slot unchanged
\* and sets saveStatus to idle.
C2_DirtyClearedOnlyBySuccessfulWrite ==
    [][ ~Crashed =>
          /\ (isDirty /\ ~isDirty') =>
                \E i \in 1..Len(timers) :
                    /\ WriteSucceeded(i)
                    /\ storage' = JSONstringify(timers[i].snap, 0)
          /\ \A i \in 1..Len(timers) :
                WriteFailed(i) =>
                    /\ isDirty' = isDirty
                    /\ storage' = storage
                    /\ saveStatus' = "idle" ]_vars

\* a write has just failed while the collection was dirty
C2_Witness ==
    /\ last = "writeFailed"
    /\ isDirty
    /\ saveStatus = "idle"
    /\ prizes # Persisted

\* C3: at most one deferred write is pending at any time.
C3_AtMostOnePendingWrite == Cardinality(PendingWrites) <= 1

\* C6: right after start-up the collection is the slot's array when the slot
\* holds a well-formed document array and empty otherwise, isDirty is false
\* and the application renders.
C6_StartUpToleratesSlot ==
    (last = "load") =>
        /\ prizes = IF WellFormedDocument(storage) THEN JSONparse(storage)
                    ELSE JsonArray(<<>>)
        /\ isDirty = FALSE
        /\ ~Crashed

\* C7: the slot changes only in the write callback of a save, and a write
\* becomes pending only by handleSaveToStorage, which changes neither the
\* collection nor the slot.
C7_SlotWrittenOnlyBySave ==
    [][ /\ (storage' # storage) =>
              \E i \in 1..Len(timers) :
                  /\ WriteSucceeded(i)
                  /\ storage' = JSONstringify(timers[i].snap, 0)
        /\ (Cardinality(PendingWrites') > Cardinality(PendingWrites)) =>
              /\ SaveTriggered
              /\ timers'[Len(timers')].snap = prizes
              /\ saveStatus' = "saving"
              /\ UNCHANGED <<prizes, isDirty, storage>> ]_vars

\* an import has replaced the collection and the slot is still absent
C7_Witness ==
    /\ last = "importApplied"
    /\ prizes.items # <<>>
    /\ storage = NoText

\* C8: a confirmed import of a well-formed array D makes the collection D, and
\* from then on isDirty stays true and the slot unchanged until a save
\* triggered after the import completes its write.
C8_ImportStaysUnsaved ==
    [][ ~Crashed' =>
          /\ \A i \in 1..Len(reads) :
                (reads' = Remove(reads, i) /\ last' = "importApplied") =>
                    prizes' = JSONparse(reads[i])
          /\ imported' => isDirty'
          /\ (imported /\ imported') => storage' = storage ]_vars

\* C9: an import whose document does not parse, or is no array, or whose
\* confirmation is declined, leaves the collection, isDirty and the slot
\* unchanged.
C9_RejectedImportChangesNothing ==
    [][ \A i \in 1..Len(reads) :
          ( /\ reads' = Remove(reads, i)
            /\ \/ JSONparseThrows(reads[i])
               \/ ~ArrayIsArray(JSONparse(reads[i]))
               \/ last' = "importDeclined" ) =>
          UNCHANGED <<prizes, isDirty, storage>> ]_vars

\* a document that is no array was rejected while records were in memory
C9_Witness ==
    /\ last = "importNotArray"
    /\ prizes.items # <<>>
    /\ ~Crashed

\* C10: no two records of the in-memory collection have the same id.
C10_IdsUnique ==
    ArrayIsArray(prizes) =>
        \A i, j \in 1..Len(prizes.items) :
            (i # j) => prizes.items[i].id # prizes.items[j].id

----------------------------------------------------------------------------
(* Claims about the form *)

\* C4: a photo ingestion that completes after the form it was started in was
\* closed is discarded: with the form open again, the completion leaves the
\* photo field of the form unchanged.
C4_StaleIngestionDiscarded ==
    [][ (isModalOpen /\ ingest.stale /\ ingest'.stage = "none") =>
            form'.photo = form.photo ]_vars

\* C5: every started photo ingestion eventually finishes: isProcessingImage
\* eventually returns to false.
C5_IngestionEventuallyFinishes ==
    isProcessingImage ~> ~isProcessingImage

\* C11: in every reachable state every record's quantity is an integer >= 0,
\* whatever form submissions produced it.
C11_QuantityNonNegative ==
    ArrayIsArray(prizes) =>
        \A i \in 1..Len(prizes.items) :
            ("quantity" \in DOMAIN prizes.items[i]) =>
                prizes.items[i].quantity \in Nat

\* the form was opened for a stored record and shows what the reset effect
\* put into its fields
UnchangedEditForm ==
    /\ isModalOpen
    /\ prizeToEdit # NoPrize
    /\ \E i \in 1..Len(prizes.items) : prizes.items[i] = prizeToEdit
    /\ form = ResetForm(prizeToEdit)

\* C24: submitting the edit form of a stored record with no field changed
\* leaves the collection unchanged: the record submitted equals the stored
\* record in every field, for every stored record, one with quantity 0
\* included.
C24_UnchangedEditKeepsCollection ==
    [][ (UnchangedEditForm /\ ~isModalOpen') => prizes' = prizes ]_vars

----------------------------------------------------------------------------
(* Claims about the save status and the deferred write *)

\* the display delay has passed: the idle timer of a completed save ran
IdleTimerFired ==
    /\ timers # <<>>
    /\ timers[1].kind = "idle"
    /\ timers' = Tail(timers)

\* C23: saveStatus moves only from idle to saving (a save is triggered), from
\* saving to saved (the write succeeded), from saving to idle (the write
\* failed) and from saved to idle (after the display delay), and it is
\* 'saving' for as long as a deferred write is pending.
C23_SaveStatusMoves ==
    [][ /\ (saveStatus' # saveStatus) =>
              \/ saveStatus = "idle" /\ saveStatus' = "saving" /\ SaveTriggered
              \/ /\ saveStatus = "saving" /\ saveStatus' = "saved"
                 /\ \E i \in PendingWrites : WriteSucceeded(i)
              \/ /\ saveStatus = "saving" /\ saveStatus' = "idle"
                 /\ \E i \in PendingWrites : WriteFailed(i)
              \/ saveStatus = "saved" /\ saveStatus' = "idle" /\ IdleTimerFired
        /\ (\E i \in 1..Len(timers') : timers'[i].kind = "write")
              => saveStatus' = "saving"
      ]_vars

\* the collections the pending callbacks hold, in registration order
Snapshots == [i \in 1..Len(timers) |-> timers[i].snap]

\* C25: a save writes the collection as it was when the save was triggered,
\* not as it is when the deferred write runs: the callback holds the
\* collection of the trigger, a mutation made while the write is pending
\* leaves what the callback holds as it is, and the write puts that into the
\* slot.
C25_WriteIsTriggerSnapshot ==
    [][ /\ SaveTriggered =>
              /\ timers'[Len(timers')].snap = prizes
              /\ SubSeq(Snapshots', 1, Len(timers)) = Snapshots
        /\ (prizes' # prizes) => Snapshots' = Snapshots
        /\ \A i \in PendingWrites :
              WriteSucceeded(i) => storage' = JSONstringify(timers[i].snap, 0)
      ]_vars

\* a write has just put a collection into the slot that is not the one in
\* memory: the collection was changed between the trigger and the write
C25_Witness ==
    /\ last = "writeOk"
    /\ Alive
    /\ ArrayIsArray(prizes)
    /\ storage # NoText
    /\ storage # JSONstringify(prizes, 0)

\* C26: once the user triggers no more saves, every deferred write that is
\* pending runs and saveStatus returns to idle, whether the writes succeed or
\* fail and whatever else is done in between.
C26_SaveEventuallyIdle ==
    (<>[][~SaveTriggered]_vars) =>
        <>[](PendingWrites = {} /\ saveStatus = "idle")

----------------------------------------------------------------------------
(* Claims about the store *)

\* the call recorded by this step
NewCall == calls'[Len(calls')]

\* this step is a call of the handler op
Calling(op) ==
    /\ Len(calls') = Len(calls) + 1
    /\ NewCall.op = op

Positions(items, id) == {i \in 1..Len(items) : items[i].id = id}

\* C12: an upsert on an id in the collection replaces that record at the same
\* index and leaves the length and every other record unchanged; an upsert on
\* an id not in the collection appends the record as the last element and
\* leaves every existing record at its index.
C12_UpsertReplacesOrAppends ==
    [][ Calling("upsert") =>
          LET old == prizes.items
              new == prizes'.items
              r   == NewCall.prize
          IN  IF Positions(old, r.id) # {}
              THEN /\ Len(new) = Len(old)
                   /\ \E i \in Positions(old, r.id) :
                         /\ new[i] = r
                         /\ \A j \in 1..Len(old) : (j # i) => new[j] = old[j]
              ELSE /\ Len(new) = Len(old) + 1
                   /\ new[Len(new)] = r
                   /\ \A i \in 1..Len(old) : new[i] = old[i] ]_vars

\* the first of two loaded records has just been replaced by another record
\* of its id
C12_Witness ==
    /\ Len(calls) = 1
    /\ calls[1].op = "upsert"
    /\ Len(Persisted.items) = 2
    /\ calls[1].prize # Persisted.items[1]
    /\ prizes.items = <<calls[1].prize, Persisted.items[2]>>

\* the run so far is a sequence of upsert calls on an empty collection
UpsertsOnly ==
    /\ mounted
    /\ Persisted = JsonArray(<<>>)
    /\ \A k \in 1..Len(calls) : calls[k].op = "upsert"

\* the ids used by the calls so far
UsedIds == {calls[k].prize.id : k \in 1..Len(calls)}

\* the index of the last call with this id
LastCallWith(id) ==
    CHOOSE k \in 1..Len(calls) :
        /\ calls[k].prize.id = id
        /\ \A j \in (k + 1)..Len(calls) : calls[j].prize.id # id

\* C13: after any sequence of upsert calls on an empty collection, the size
\* of the collection is the number of distinct ids used, and for each id the
\* stored record is the record of the last upsert with that id.
C13_LastUpsertPerIdWins ==
    UpsertsOnly =>
        /\ Len(prizes.items) = Cardinality(UsedIds)
        /\ \A id \in UsedIds :
              \E i \in 1..Len(prizes.items) :
                  /\ prizes.items[i] = calls[LastCallWith(id)].prize
                  /\ Positions(prizes.items, id) = {i}

\* three upserts with two ids, the first id used twice with different records
C13_Witness ==
    /\ UpsertsOnly
    /\ Len(calls) = 3
    /\ Cardinality(UsedIds) = 2
    /\ calls[1].prize.id = calls[3].prize.id
    /\ calls[1].prize # calls[3].prize

\* C14: setQuantity(id, q) changes only the quantity field of the record with
\* that id: its other fields, every other record, the length and the order of
\* the collection are unchanged; when no record has that id the collection is
\* unchanged.
C14_SetQuantityChangesOnlyQuantity ==
    [][ Calling("setQuantity") =>
          LET old == prizes.items
              new == prizes'.items
          IN  /\ Len(new) = Len(old)
              /\ \A i \in 1..Len(old) :
                    IF old[i].id = NewCall.id
                    THEN /\ new[i].quantity = NewCall.q
                         /\ DOMAIN new[i] = DOMAIN old[i] \cup {"quantity"}
                         /\ \A f \in DOMAIN old[i] \ {"quantity"} :
                               new[i][f] = old[i][f]
                    ELSE new[i] = old[i]
              /\ (Positions(old, NewCall.id) = {}) => prizes' = prizes ]_vars

\* the quantity of the second of two loaded records has just been changed
C14_Witness ==
    /\ Len(calls) = 1
    /\ calls[1].op = "setQuantity"
    /\ Len(Persisted.items) = 2
    /\ Len(prizes.items) = 2
    /\ calls[1].id = Persisted.items[2].id
    /\ prizes.items[2].quantity = calls[1].q
    /\ prizes.items[2].quantity # Persisted.items[2].quantity
    /\ prizes.items[2].name = Persisted.items[2].name

\* C15: after a confirmed delete(id) no record with that id remains and all
\* other records remain, unchanged and in the same relative order; when no
\* record has that id, or the confirmation is declined, the collection is
\* unchanged.
C15_DeleteRemovesOnlyThatId ==
    [][ Calling("delete") =>
          LET old  == prizes.items
              new  == prizes'.items
              gone == Positions(old, NewCall.id)
          IN  IF NewCall.answer /\ gone # {}
              THEN /\ Positions(new, NewCall.id) = {}
                   /\ Len(new) = Len(old) - Cardinality(gone)
                   /\ \A i \in (1..Len(old)) \ gone :
                         new[i - Cardinality({j \in gone : j < i})] = old[i]
              ELSE prizes' = prizes ]_vars

\* the first of two loaded records has just been deleted
C15_Witness ==
    /\ Len(calls) = 1
    /\ calls[1].op = "delete"
    /\ calls[1].answer
    /\ Len(Persisted.items) = 2
    /\ calls[1].id = Persisted.items[1].id
    /\ prizes.items = <<Persisted.items[2]>>

\* reader.onload has just replaced the collection by a confirmed import
ImportApplied ==
    /\ \E i \in 1..Len(reads) : reads' = Remove(reads, i)
    /\ last' = "importApplied"

\* C16: each confirmed mutation - upsert, delete (whether or not the id is
\* present), setQuantity, import and clear-all - leaves isDirty = true in the
\* state right after it.
C16_MutationsMarkDirty ==
    [][ ( \/ Calling("upsert")
          \/ Calling("setQuantity")
          \/ Calling("delete") /\ NewCall.answer
          \/ Calling("clearAll") /\ NewCall.answer
          \/ ImportApplied ) => isDirty' ]_vars

\* a confirmed delete of an id that is not in the collection was the only call
C16_Witness ==
    /\ Len(calls) = 1
    /\ calls[1].op = "delete"
    /\ calls[1].answer
    /\ Positions(Persisted.items, calls[1].id) = {}
    /\ prizes = Persisted
    /\ isDirty

\* C18: exporting a collection C and then importing the exported document
\* (confirmed) yields an in-memory collection equal to C: the same records with
\* the same field values in the same order.
C18_ExportImportRoundTrip ==
    [][ ImportApplied =>
          \A i \in 1..Len(reads) : \A k \in 1..Len(calls) :
              ( /\ reads' = Remove(reads, i)
                /\ calls[k].op = "export"
                /\ calls[k].doc = reads[i] ) => prizes' = calls[k].of ]_vars

\* two loaded records were exported, cleared and brought back by importing
\* the downloaded file
C18_Witness ==
    /\ last = "importApplied"
    /\ Len(calls) = 3
    /\ calls[1].op = "export"
    /\ calls[2].op = "clearAll" /\ calls[2].answer
    /\ calls[3].op = "import" /\ calls[3].file = calls[1].doc
    /\ Len(calls[1].of.items) = 2
    /\ prizes = calls[1].of

\* the sum of the quantities of the records at the indices S
RECURSIVE SumOfQuantities(_, _)
SumOfQuantities(items, S) ==
    IF S = {} THEN 0
    ELSE LET i == CHOOSE j \in S : TRUE
         IN  items[i].quantity + SumOfQuantities(items, S \ {i})

\* C19: for every collection, the empty one included, stats.totalQuantity is
\* the sum of quantity over all records and stats.totalTypes is the number of
\* records (both 0 for the empty collection).
C19_StatsAreSumAndCount ==
    /\ stats(prizes.items).totalQuantity
          = SumOfQuantities(prizes.items, DOMAIN prizes.items)
    /\ stats(prizes.items).totalTypes = Cardinality(DOMAIN prizes.items)
    /\ (prizes.items = <<>>) =>
          /\ stats(prizes.items).totalQuantity = 0
          /\ stats(prizes.items).totalTypes = 0

\* two records with the quantities 1 and 2
C19_Witness ==
    /\ Len(prizes.items) = 2
    /\ {prizes.items[1].quantity, prizes.items[2].quantity} = {1, 2}
    /\ stats(prizes.items).totalQuantity = 3
    /\ stats(prizes.items).totalTypes = 2

----------------------------------------------------------------------------
(* Claims about the view *)

\* the value of the memo in this state
View ==
    filteredAndSortedPrizes(prizes.items, searchTerm, selectedCategory,
                            sortOrder).view

\* C20: deriving the view never changes the canonical collection: whatever
\* search terms and category filters were set, the collection is the one that
\* was loaded, and for every sort order computing the view leaves the records
\* and their order as they are.
C20_ViewLeavesCollection ==
    mounted =>
        /\ prizes = Persisted
        /\ \A order \in SortOrders :
              filteredAndSortedPrizes(prizes.items, searchTerm,
                                      selectedCategory, order).prizes
                = prizes.items

\* a search term is set and the view shows two or more records in another
\* order than the collection has them
C20_Witness ==
    /\ mounted
    /\ searchTerm # ""
    /\ Len(View) >= 2
    /\ \E i, j \in 1..Len(prizes.items) :
          /\ i < j
          /\ View[1] = prizes.items[j]
          /\ View[2] = prizes.items[i]

\* the name contains the term, letter case apart
ContainsIgnoringCase(name, term) ==
    LET n == Chars(name)
        t == Chars(term)
    IN  \E k \in 0..(Len(n) - Len(t)) :
            \A m \in 1..Len(t) : LowerChar(n[k + m]) = LowerChar(t[m])

\* the indices of the records the view is to show
Shown ==
    {i \in 1..Len(prizes.items) :
        /\ ContainsIgnoringCase(prizes.items[i].name, searchTerm)
        /\ selectedCategory = "all"
              \/ prizes.items[i].category = selectedCategory}

\* the place of a record in the collection
CanonicalIndex(r) == CHOOSE i \in 1..Len(prizes.items) : prizes.items[i] = r

\* C21: with the sort order date-desc the view holds exactly the records
\* whose name contains the search term, letter case apart, and whose category
\* matches the filter ('all' or equal), by acquisition date descending,
\* records of one date in their canonical order; records 1 (2024-01-01) and 2
\* (2024-02-01) with the filter 'all' give the view order [2, 1].
C21_DateDescView ==
    (mounted /\ sortOrder = "date-desc") =>
        /\ Len(View) = Cardinality(Shown)
        /\ \A i \in Shown : \E k \in 1..Len(View) : View[k] = prizes.items[i]
        /\ \A k \in 1..Len(View) : \E i \in Shown : View[k] = prizes.items[i]
        /\ \A k, l \in 1..Len(View) :
              (k < l) =>
                  \/ getTime(View[k].acquisitionDate) > getTime(View[l].acquisitionDate)
                  \/ /\ View[k].acquisitionDate = View[l].acquisitionDate
                     /\ CanonicalIndex(View[k]) < CanonicalIndex(View[l])
        /\ ( /\ prizes.items = <<Item(1, "A", "2024-01-01", "other"),
                                 Item(2, "B", "2024-02-01", "figure")>>
              /\ searchTerm = ""
              /\ selectedCategory = "all" ) =>
                [k \in 1..Len(View) |-> View[k].id] = <<2, 1>>

\* a search term and a category are set, and of three records the view shows
\* two of one date, in their canonical order, after a newer one
C21_Witness ==
    /\ mounted
    /\ sortOrder = "date-desc"
    /\ searchTerm # ""
    /\ selectedCategory # "all"
    /\ Len(prizes.items) = 3
    /\ Len(View) = 2
    /\ View[1].acquisitionDate = View[2].acquisitionDate
    /\ CanonicalIndex(View[1]) < CanonicalIndex(View[2])

----------------------------------------------------------------------------
(* Claims about the photo ingestion *)

\* the longer and the other side of a pair of dimensions
Longer(d) == IF d.width > d.height THEN d.width ELSE d.height

Other(d) == IF d.width > d.height THEN d.height ELSE d.width

\* the canvas is the image's: img.onload has run
Ingested == ingest.stage = "none" /\ img # NoImage /\ canvas # NoCanvas

\* C22: the ingested image's longer side is min(max(w, h), 600) and the
\* other side is scaled by the same factor, to the whole pixel below or
\* above; with w and h at most 600 the dimensions are unchanged (1200x800
\* gives 600x400, 300x200 stays 300x200).
C22_ResizeKeepsAspect ==
    Ingested =>
        LET limit == IF Longer(img) < 600 THEN Longer(img) ELSE 600
            exact == Other(img) * limit
        IN  /\ Longer(canvas) = limit
            /\ Other(canvas) * Longer(img) > exact - Longer(img)
            /\ Other(canvas) * Longer(img) < exact + Longer(img)
            /\ (img.width <= 600 /\ img.height <= 600) => canvas = img
            /\ (img = [width |-> 1200, height |-> 800])
                    => canvas = [width |-> 600, height |-> 400]
            /\ (img = [width |-> 300, height |-> 200])
                    => canvas = [width |-> 300, height |-> 200]


\* the FileReader delivered the data of the file, and it is no image the
\* browser can decode
DecodeFails(file) ==
    /\ ReaderResult(file) # "null"
    /\ ~ImageLoads(ReaderResult(file))

\* C17: when decoding a selected image fails, the ingestion completes with
\* the original unprocessed image: the photo of the form becomes the original
\* data of the selected file.
C17_FailedDecodeFallsBackToOriginal ==
    \A file \in Files :
        (ingest.stage = "decoding" /\ ingest.file = file /\ DecodeFails(file))
            ~> (form.photo = ReaderResult(file))

====
